---- MODULE Spec2Model ----
(***************************************************************************)
(* Column-generation replenishment solver (column_generation.py).          *)
(*                                                                         *)
(* The state is one ColumnGenerationSolver object and one call of its      *)
(* solve method: the instance, the column pool, the locals of solve and    *)
(* the result of generate_schedule.  Money, demand and inventory are       *)
(* integers; days, stores and products are numbered from 0 as in the       *)
(* source.  The LP/MIP engine (pulp) is modelled by what it is asked for:  *)
(* an optimal solution of the covering program when one exists, and an     *)
(* arbitrary assignment with status Infeasible otherwise.                  *)
(***************************************************************************)
EXTENDS Integers, Sequences, FiniteSets, TLC

VARIABLES instance, columns, pc, max_iter, optimality_gap_threshold, i,
          best_lower_bound, rmp, duals, new_cols, final_rmp, schedule, outcome

vars == <<instance, columns, pc, max_iter, optimality_gap_threshold, i,
          best_lower_bound, rmp, duals, new_cols, final_rmp, schedule, outcome>>

(***************************************************************************)
(* Bounds of the model.                                                    *)
(***************************************************************************)
\* largest num_stores * num_products * time_horizon of an instance whose
\* constructor alone runs (SeedSpec)
SeedMaxCells == 3
\* largest max_iter passed to solve
MaxIter == 2

\* <<num_stores, num_products, time_horizon>> of the instances given to solve (Spec)
SolveDims == { <<1, 1, 1>>, <<1, 1, 2>>, <<2, 1, 1>>, <<1, 2, 1>> }
\* demand of a (store, product, day): SeedSpec and Spec
SeedDemandValues == {0, 5, 10}
SolveDemandValues == {0, 5}
InventoryValues == {0, 7}
MinOrderQtyValues == {1, 2}
CasePackSizeValues == {5}
OrderingCostValues == {10}
HoldingCostValues == {1}
ShortageCostValues == {100}
\* shadow prices the RMP solve may report for a demand constraint
DualValues == {0, 6}
\* optimality_gap_threshold, as a numerator over GapDen: 0 and the default 1e-5
ThresholdValues == {0, 1}

(***************************************************************************)
(* Program constants.                                                      *)
(***************************************************************************)
\* x[t] <= 100 * y[t]
BigM == 100
\* 1e-5 == 1 / EpsDen, in "value(sp.objective) < -1e-5"
EpsDen == 100000
\* 1e-5 == 1 / GapDen, the default of optimality_gap_threshold
GapDen == 100000
\* LpStatusOptimal, in "final_rmp.status != 1"
LpStatusOptimal == 1

None == "None"
\* float('inf')
Inf == [finite |-> FALSE, value |-> 0]
Finite(v) == [finite |-> TRUE, value |-> v]
\* a local of solve that no assignment has reached yet
Unbound == [bound |-> FALSE]

(***************************************************************************)
(* Instances: ReplenishmentConfig, demand and initial_inventory.           *)
(***************************************************************************)
Stores(cfg) == 0 .. (cfg.num_stores - 1)
Products(cfg) == 0 .. (cfg.num_products - 1)
Days(cfg) == 0 .. (cfg.time_horizon - 1)
Pairs(cfg) == Stores(cfg) \X Products(cfg)

ReplenishmentConfig(S, P, H) ==
    { [num_stores |-> S, num_products |-> P, time_horizon |-> H,
       ordering_cost |-> oc, holding_cost |-> hc, shortage_cost |-> sc,
       min_order_qty |-> moq, case_pack_size |-> cps] :
         oc \in [0 .. (P - 1) -> OrderingCostValues],
         hc \in [0 .. (P - 1) -> HoldingCostValues],
         sc \in [0 .. (P - 1) -> ShortageCostValues],
         moq \in [0 .. (P - 1) -> MinOrderQtyValues],
         cps \in [0 .. (P - 1) -> CasePackSizeValues] }

InstancesOfDim(S, P, H, DemandValues) ==
    { [config |-> cfg, demand |-> dm, initial_inventory |-> iv] :
         cfg \in ReplenishmentConfig(S, P, H),
         dm \in [(0 .. (S - 1)) \X (0 .. (P - 1)) \X (0 .. (H - 1)) -> DemandValues],
         iv \in [(0 .. (S - 1)) \X (0 .. (P - 1)) -> InventoryValues] }

SeedDims ==
    { d \in (1 .. SeedMaxCells) \X (1 .. SeedMaxCells) \X (1 .. SeedMaxCells) :
         d[1] * d[2] * d[3] <= SeedMaxCells }

SeedInstances ==
    UNION { InstancesOfDim(d[1], d[2], d[3], SeedDemandValues) : d \in SeedDims }

SolveInstances ==
    UNION { InstancesOfDim(d[1], d[2], d[3], SolveDemandValues) : d \in SolveDims }

(***************************************************************************)
(* Arithmetic helpers.                                                     *)
(***************************************************************************)
Max(a, b) == IF a >= b THEN a ELSE b

\* math.ceil(a / b) for integers a >= 0, b > 0
Ceil(a, b) == (a + b - 1) \div b

\* sum(f[t] for t in range(n))
RECURSIVE SumRange(_, _)
SumRange(f, n) == IF n = 0 THEN 0 ELSE SumRange(f, n - 1) + f[n - 1]

(***************************************************************************)
(* _initialize_columns                                                     *)
(***************************************************************************)
\* packs = max(math.ceil(needed / case_pack_size[p]), min_order_qty[p])
PacksNoMoq(cfg, p, needed) == Ceil(needed, cfg.case_pack_size[p])

PacksFloor(cfg, p, needed) ==
    Max(needed \div cfg.case_pack_size[p], cfg.min_order_qty[p])

Packs(cfg, p, needed) ==
    Max(Ceil(needed, cfg.case_pack_size[p]), cfg.min_order_qty[p])

\* one pass of the body of "for t in range(time_horizon)" on the loop state w
GreedyDay(inst, s, p, t, w) ==
    LET cfg == inst.config
        current_demand == inst.demand[<<s, p, t>>]
        needed == Max(0, current_demand - w.inv)
        packs == Packs(cfg, p, needed)
        orders1 == IF needed > 0 THEN [w.orders EXCEPT ![t] = packs] ELSE w.orders
        inv1 == IF needed > 0 THEN w.inv + packs * cfg.case_pack_size[p] ELSE w.inv
        inv2 == inv1 - current_demand
    IN  IF inv2 < 0
        THEN [orders |-> orders1,
              shortage |-> [w.shortage EXCEPT ![t] = -inv2],
              inv |-> 0]
        ELSE [orders |-> orders1, shortage |-> w.shortage, inv |-> inv2]

\* the loop state after days 0 .. n-1
RECURSIVE GreedyWalk(_, _, _, _)
GreedyWalk(inst, s, p, n) ==
    IF n = 0
    THEN [orders |-> [t \in Days(inst.config) |-> 0],
          shortage |-> [t \in Days(inst.config) |-> 0],
          inv |-> inst.initial_inventory[<<s, p>>]]
    ELSE GreedyDay(inst, s, p, n - 1, GreedyWalk(inst, s, p, n - 1))

\* total_cost: the sum reads inv after the loop has ended
GreedyCost(cfg, p, w) ==
    SumRange([t \in Days(cfg) |->
                 cfg.ordering_cost[p] * (IF w.orders[t] > 0 THEN 1 ELSE 0)
                 + cfg.holding_cost[p] * w.inv
                 + cfg.shortage_cost[p] * w.shortage[t]],
             cfg.time_horizon)

\* Column 1: Aggressive ordering to meet all demand
GreedyColumn(inst, s, p) ==
    LET w == GreedyWalk(inst, s, p, inst.config.time_horizon)
    IN  [store |-> s, product |-> p, orders |-> w.orders,
         shortage |-> w.shortage, cost |-> GreedyCost(inst.config, p, w)]

\* Column 2: No orders
ZeroColumn(inst, s, p) ==
    LET cfg == inst.config
    IN  [store |-> s, product |-> p,
         orders |-> [t \in Days(cfg) |-> 0],
         shortage |-> [t \in Days(cfg) |-> inst.demand[<<s, p, t>>]],
         cost |-> SumRange([t \in Days(cfg) |->
                               cfg.shortage_cost[p] * inst.demand[<<s, p, t>>]],
                           cfg.time_horizon)]

\* the columns appended for the first k pairs, in the order stores then products
RECURSIVE InitializeUpTo(_, _)
InitializeUpTo(inst, k) ==
    IF k = 0 THEN << >>
    ELSE LET s == (k - 1) \div inst.config.num_products
             p == (k - 1) % inst.config.num_products
         IN  InitializeUpTo(inst, k - 1)
               \o << GreedyColumn(inst, s, p), ZeroColumn(inst, s, p) >>

InitializeColumns(inst) ==
    InitializeUpTo(inst, inst.config.num_stores * inst.config.num_products)

(***************************************************************************)
(* The covering program of solve_rmp and generate_schedule:                *)
(*   minimise   sum_k cost_k * lambda_k                                     *)
(*   subject to sum_{k of (s,p)} orders_k[t] * lambda_k >= demand(s,p,t)    *)
(* with lambda binary in solve_rmp (cat="Binary") and a non-negative       *)
(* integer in generate_schedule (lowBound=0, cat="Integer").               *)
(***************************************************************************)
Cells(cfg) == Stores(cfg) \X Products(cfg) \X Days(cfg)

\* sum(col['orders'][t] * lambda[k] for k, col in enumerate(cols)
\*     if col['store'] == s and col['product'] == p), over the first n columns
RECURSIVE CoverLhs(_, _, _, _, _, _)
CoverLhs(cols, lam, s, p, t, n) ==
    IF n = 0 THEN 0
    ELSE CoverLhs(cols, lam, s, p, t, n - 1)
           + (IF cols[n].store = s /\ cols[n].product = p
              THEN cols[n].orders[t] * lam[n] ELSE 0)

\* sum(col['cost'] * lambda[k]), over the first n columns
RECURSIVE Objective(_, _, _)
Objective(cols, lam, n) ==
    IF n = 0 THEN 0 ELSE Objective(cols, lam, n - 1) + cols[n].cost * lam[n]

Feasible(inst, cols, lam) ==
    \A c \in Cells(inst.config) :
        CoverLhs(cols, lam, c[1], c[2], c[3], Len(cols)) >= inst.demand[c]

\* No weight above LamBound is needed: with it the column alone covers every
\* day it orders on, and costs are non-negative.
LamBound(inst, col) ==
    LET need == { Ceil(inst.demand[<<col.store, col.product, t>>], col.orders[t]) :
                    t \in { u \in Days(inst.config) : col.orders[u] > 0 } }
    IN  IF need = {} THEN 0 ELSE CHOOSE m \in need : \A x \in need : x <= m

\* the assignments of weights 0 .. ub[k] to the columns numbered in K
RECURSIVE Assignments(_, _)
Assignments(K, ub) ==
    IF K = {} THEN { [k \in {} |-> 0] }
    ELSE LET k0 == CHOOSE k \in K : \A j \in K : j <= k
         IN  { [k \in K |-> IF k = k0 THEN v ELSE g[k]] :
                  g \in Assignments(K \ {k0}, ub), v \in 0 .. ub[k0] }

\* What the engine hands back for the covering program over cols, the weights
\* binary or without an upper bound.  A feasible program has an optimum,
\* the costs being non-negative; for an infeasible one the status is
\* Infeasible (-1) and the values left in the variables are arbitrary: the
\* model lets them be all zero or all at their largest useful value.
SolveCover(inst, cols, binary) ==
    LET n == Len(cols)
        ub == [k \in 1 .. n |->
                 IF binary /\ LamBound(inst, cols[k]) > 1
                 THEN 1 ELSE LamBound(inst, cols[k])]
        cand == Assignments(1 .. n, ub)
        feas == { f \in cand : Feasible(inst, cols, f) }
        best == { f \in feas : \A g \in feas :
                     Objective(cols, f, n) <= Objective(cols, g, n) }
    IN  IF feas = {}
        THEN { [status |-> -1, lambda |-> f, objective |-> Objective(cols, f, n)] :
                  f \in { [k \in 1 .. n |-> 0], ub } }
        ELSE { [status |-> LpStatusOptimal, lambda |-> f,
                objective |-> Objective(cols, f, n)] : f \in best }

(***************************************************************************)
(* pricing_problem                                                         *)
(***************************************************************************)
\* x[t] integer >= 0, y[t] binary, x[t] <= 100 * y[t], x[t] >= min_order_qty[p] * y[t]
DayChoices(cfg, p) ==
    { xy \in (0 .. BigM) \X {0, 1} :
         /\ xy[1] <= BigM * xy[2]
         /\ xy[1] >= cfg.min_order_qty[p] * xy[2] }

\* the terms of day t in the objective of the subproblem
DayValue(cfg, p, dual, xy) ==
    cfg.ordering_cost[p] * xy[2]
      + cfg.holding_cost[p] * xy[1] * cfg.case_pack_size[p]
      - dual * xy[1]

\* The objective and the constraints are separable by day, so the optimal
\* solutions are the combinations of the per-day optima.
DayOptima(cfg, p, dual) ==
    LET ch == DayChoices(cfg, p)
        vals == { DayValue(cfg, p, dual, xy) : xy \in ch }
        least == CHOOSE v \in vals : \A w \in vals : v <= w
    IN  { xy \in ch : DayValue(cfg, p, dual, xy) = least }

PricingOptima(inst, du, s, p) ==
    LET cfg == inst.config
        opt == [t \in Days(cfg) |-> DayOptima(cfg, p, du[<<s, p, t>>])]
    IN  { f \in [Days(cfg) -> UNION { opt[t] : t \in Days(cfg) }] :
             \A t \in Days(cfg) : f[t] \in opt[t] }

\* value(sp.objective)
PricingObjective(inst, du, s, p, sol) ==
    SumRange([t \in Days(inst.config) |->
                 DayValue(inst.config, p, du[<<s, p, t>>], sol[t])],
             inst.config.time_horizon)

\* value(sp.objective) < -1e-5
ImprovingLoose(v) == v < 1

Improving(v) == v * EpsDen < -1

\* new_col: orders x[t].varValue, cost from the undiscounted terms
PricedCost(inst, s, p, sol) ==
    LET cfg == inst.config
    IN  SumRange([t \in Days(cfg) |->
                     cfg.ordering_cost[p] * sol[t][2]
                     + cfg.holding_cost[p] * sol[t][1] * cfg.case_pack_size[p]],
                 cfg.time_horizon)

NewColumn(inst, s, p, sol) ==
    [store |-> s, product |-> p,
     orders |-> [t \in Days(inst.config) |-> sol[t][1]],
     cost |-> PricedCost(inst, s, p, sol)]

\* new_columns after the first k pairs, stores then products; pick[<<s, p>>]
\* is the optimal solution the engine returned for the pair
RECURSIVE PricingUpTo(_, _, _, _)
PricingUpTo(inst, du, pick, k) ==
    IF k = 0 THEN << >>
    ELSE LET s == (k - 1) \div inst.config.num_products
             p == (k - 1) % inst.config.num_products
             sol == pick[<<s, p>>]
             before == PricingUpTo(inst, du, pick, k - 1)
         IN  IF Improving(PricingObjective(inst, du, s, p, sol))
             THEN Append(before, NewColumn(inst, s, p, sol))
             ELSE before

PricingProblem(inst, du, pick) ==
    PricingUpTo(inst, du, pick, inst.config.num_stores * inst.config.num_products)

PricingPicks(inst, du) ==
    LET cfg == inst.config
        opt == [pr \in Pairs(cfg) |-> PricingOptima(inst, du, pr[1], pr[2])]
    IN  { f \in [Pairs(cfg) -> UNION { opt[pr] : pr \in Pairs(cfg) }] :
             \A pr \in Pairs(cfg) : f[pr] \in opt[pr] }

(***************************************************************************)
(* generate_schedule                                                       *)
(***************************************************************************)
\* sum(demand[(s, p, t2)] for t2 in range(t+1, time_horizon))
FutureDemand(inst, s, p, t) ==
    SumRange([u \in Days(inst.config) |->
                 IF u > t THEN inst.demand[<<s, p, u>>] ELSE 0],
             inst.config.time_horizon)

\* One pass of the body of "for t" for column k and day t, on the state
\* w = [inventory, schedule].  Days_Inventory_Left is kept as the three
\* numbers the metric is computed from (the float quotient and round(.., 1)
\* are not modelled).
ScheduleStep(inst, cols, lam, k, t, w) ==
    LET cfg == inst.config
        col == cols[k]
        s == col.store
        p == col.product
        units_ordered == col.orders[t] * cfg.case_pack_size[p]
        inv == Max(0, w.inventory[<<s, p>>] + units_ordered - inst.demand[<<s, p, t>>])
    IN  IF lam[k] > 0 /\ col.orders[t] > 0
        THEN [inventory |-> [w.inventory EXCEPT ![<<s, p>>] = inv],
              schedule |-> Append(w.schedule,
                 [Store |-> s, Product |-> p, Day |-> t,
                  Case_Packs |-> col.orders[t],
                  Units |-> units_ordered,
                  Days_Inventory_Left |->
                     [inventory |-> inv,
                      future_demand |-> FutureDemand(inst, s, p, t),
                      remaining |-> cfg.time_horizon - t - 1]])]
        ELSE w

\* the state after m passes, columns in pool order and days in order within one
RECURSIVE ScheduleWalk(_, _, _, _)
ScheduleWalk(inst, cols, lam, m) ==
    IF m = 0
    THEN [inventory |-> inst.initial_inventory, schedule |-> << >>]
    ELSE LET H == inst.config.time_horizon
         IN  ScheduleStep(inst, cols, lam, ((m - 1) \div H) + 1, (m - 1) % H,
                          ScheduleWalk(inst, cols, lam, m - 1))

BuildSchedule(inst, cols, lam) ==
    ScheduleWalk(inst, cols, lam, Len(cols) * inst.config.time_horizon).schedule

(***************************************************************************)
(* solve                                                                   *)
(***************************************************************************)
\* self.columns.extend(new_cols)
ExtendFront(cols, nc) == nc \o cols

Extend(cols, nc) == cols \o nc

\* min(best_lower_bound, current_obj_value), best_lower_bound starting at inf
MinBoundStale(best, obj) == best

MinBound(best, obj) ==
    IF ~best.finite \/ obj < best.value THEN Finite(obj) ELSE best

\* (current - best) / current < threshold, for current > 0
GapBelow(current, best, thr) ==
    (current - best.value) * GapDen < thr * current

(***************************************************************************)
(* ColumnGenerationSolver(instance)                                        *)
(***************************************************************************)
Construct ==
    /\ pc = "new"
    /\ columns' = InitializeColumns(instance)
    /\ pc' = "ready"
    /\ UNCHANGED <<instance, max_iter, optimality_gap_threshold, i,
                   best_lower_bound, rmp, duals, new_cols, final_rmp,
                   schedule, outcome>>

InitWith(insts) ==
    /\ instance \in insts
    /\ columns = << >>
    /\ pc = "new"
    /\ max_iter = None
    /\ optimality_gap_threshold = None
    /\ i = None
    /\ best_lower_bound = Inf
    /\ rmp = Unbound
    /\ duals = None
    /\ new_cols = << >>
    /\ final_rmp = Unbound
    /\ schedule = << >>
    /\ outcome = None

\* solver.solve(optimality_gap_threshold, max_iter): lines 153-154
CallSolve ==
    /\ pc = "ready"
    /\ \E mi \in 0 .. MaxIter, thr \in ThresholdValues :
          /\ max_iter' = mi
          /\ optimality_gap_threshold' = thr
    /\ i' = 0
    /\ best_lower_bound' = Inf
    /\ pc' = "loop"
    /\ UNCHANGED <<instance, columns, rmp, duals, new_cols, final_rmp,
                   schedule, outcome>>

\* one pass of the body of "while i < max_iter": solve_rmp, pricing_problem,
\* then break, raise or i += 1
LoopIterate ==
    /\ pc = "loop"
    /\ i < max_iter
    /\ \E r \in SolveCover(instance, columns, TRUE),
          du \in [Cells(instance.config) -> DualValues] :
         \E pick \in PricingPicks(instance, du) :
            LET nc == PricingProblem(instance, du, pick)
                obj == r.objective
                best == MinBound(best_lower_bound, obj)
            IN  /\ rmp' = [bound |-> TRUE, status |-> r.status, objective |-> obj]
                /\ duals' = du
                /\ new_cols' = nc
                /\ IF nc = << >>
                   THEN /\ pc' = "final"
                        /\ UNCHANGED <<columns, best_lower_bound, i, outcome>>
                   ELSE /\ columns' = Extend(columns, nc)
                        /\ best_lower_bound' = best
                        /\ IF obj = 0
                           THEN /\ pc' = "done"
                                /\ outcome' = "ZeroDivisionError"
                                /\ UNCHANGED i
                           ELSE IF GapBelow(obj, best, optimality_gap_threshold)
                           THEN /\ pc' = "final"
                                /\ UNCHANGED <<i, outcome>>
                           ELSE /\ pc' = "loop"
                                /\ i' = i + 1
                                /\ UNCHANGED outcome
    /\ UNCHANGED <<instance, max_iter, optimality_gap_threshold, final_rmp, schedule>>

\* "while i < max_iter" is false
LoopExit ==
    /\ pc = "loop"
    /\ ~(i < max_iter)
    /\ pc' = "final"
    /\ UNCHANGED <<instance, columns, max_iter, optimality_gap_threshold, i,
                   best_lower_bound, rmp, duals, new_cols, final_rmp,
                   schedule, outcome>>

\* final_schedule = self.generate_schedule(): a status other than 1 is
\* printed and the schedule is built all the same
GenerateSchedule ==
    /\ pc = "final"
    /\ \E r \in SolveCover(instance, columns, FALSE) :
          /\ final_rmp' = [bound |-> TRUE, status |-> r.status, lambda |-> r.lambda]
          /\ schedule' = BuildSchedule(instance, columns, r.lambda)
    /\ pc' = "post"
    /\ UNCHANGED <<instance, columns, max_iter, optimality_gap_threshold, i,
                   best_lower_bound, rmp, duals, new_cols, outcome>>

\* lines 178-181: value(rmp.objective) reads the local rmp of the loop, the
\* final gap divides by it, then return final_schedule
Finish ==
    /\ pc = "post"
    /\ outcome' = IF ~rmp.bound THEN "UnboundLocalError"
                  ELSE IF rmp.objective = 0 THEN "ZeroDivisionError"
                  ELSE "returned"
    /\ pc' = "done"
    /\ UNCHANGED <<instance, columns, max_iter, optimality_gap_threshold, i,
                   best_lower_bound, rmp, duals, new_cols, final_rmp, schedule>>

Init == InitWith(SolveInstances)

Next == Construct \/ CallSolve \/ LoopIterate \/ LoopExit \/ GenerateSchedule \/ Finish

Spec == Init /\ [][Next]_vars

SeedInit == InitWith(SeedInstances)

SeedNext == Construct

SeedSpec == SeedInit /\ [][SeedNext]_vars

(***************************************************************************)
(* Properties.                                                             *)
(***************************************************************************)
\* position in the pool of the two seed columns of (s, p)
GreedyIndex(cfg, s, p) == 2 * (s * cfg.num_products + p) + 1
ZeroIndex(cfg, s, p) == 2 * (s * cfg.num_products + p) + 2
SeedCount(cfg) == 2 * cfg.num_stores * cfg.num_products

\* C1: over the pool of _initialize_columns alone the covering constraints
\* have a solution in non-negative weights, for every instance.  Orders are
\* whole case-packs, so a weight equal to the largest demand covers whatever
\* a column can cover at all.
C1_SeedPoolFeasible ==
    pc = "ready" =>
       \E lam \in [1 .. Len(columns) -> {0} \cup SeedDemandValues] :
          Feasible(instance, columns, lam)

\* Scenario A: one store, one product, horizon 3, inventory 0, demand [10, 0, 5],
\* case pack 5, MOQ 1, costs 10 / 1 / 100
ScenarioA ==
    [config |-> [num_stores |-> 1, num_products |-> 1, time_horizon |-> 3,
                 ordering_cost |-> [p \in {0} |-> 10],
                 holding_cost |-> [p \in {0} |-> 1],
                 shortage_cost |-> [p \in {0} |-> 100],
                 min_order_qty |-> [p \in {0} |-> 1],
                 case_pack_size |-> [p \in {0} |-> 5]],
     demand |-> [c \in {0} \X {0} \X (0 .. 2) |->
                   IF c[3] = 0 THEN 10 ELSE IF c[3] = 1 THEN 0 ELSE 5],
     initial_inventory |-> [pr \in {0} \X {0} |-> 0]]

\* initial inventory plus the orders of days before t in units minus their demand
RunningInventory(inst, col, t) ==
    inst.initial_inventory[<<col.store, col.product>>]
      + SumRange([u \in Days(inst.config) |->
                    IF u < t
                    THEN col.orders[u] * inst.config.case_pack_size[col.product]
                           - inst.demand[<<col.store, col.product, u>>]
                    ELSE 0],
                 inst.config.time_horizon)

\* the least number of packs holding at least need units
LeastPacks(need, size) ==
    CHOOSE k \in 0 .. need :
       k * size >= need /\ (k = 0 \/ (k - 1) * size < need)

\* C4: in the greedy-cover column of every (store, product), a day whose
\* demand exceeds the running inventory orders max(ceil(shortfall / case
\* pack), MOQ) packs, every other day orders nothing, and no day records a
\* shortage; for Scenario A the orders are [2, 0, 1].
C4_GreedyCoverOrders ==
    pc = "ready" =>
       /\ \A pr \in Pairs(instance.config) :
             LET cfg == instance.config
                 col == columns[GreedyIndex(cfg, pr[1], pr[2])]
             IN  \A t \in Days(cfg) :
                    LET d == instance.demand[<<pr[1], pr[2], t>>]
                        inv == RunningInventory(instance, col, t)
                    IN  /\ d > inv =>
                             col.orders[t] =
                                Max(LeastPacks(d - inv, cfg.case_pack_size[pr[2]]),
                                    cfg.min_order_qty[pr[2]])
                        /\ ~(d > inv) => col.orders[t] = 0
                        /\ col.shortage[t] = 0
       /\ instance = ScenarioA =>
             /\ columns[1].orders = [t \in 0 .. 2 |-> IF t = 0 THEN 2 ELSE IF t = 1 THEN 0 ELSE 1]
             /\ Cardinality({ t \in 0 .. 2 : columns[1].orders[t] # 0 }) = 2

C4_ScenarioASeeded ==
    /\ pc = "ready"
    /\ instance = ScenarioA
    /\ columns[1].orders[0] = 2
    /\ columns[1].orders[2] = 1

\* C9: the cost of the greedy-cover column is the sum over the days of the
\* ordering cost if the day orders, the holding cost times the inventory at
\* the end of that day, and the shortage cost times that day's shortage.
C9_GreedyCostPerDayInventory ==
    pc = "ready" =>
       \A pr \in Pairs(instance.config) :
          LET cfg == instance.config
              p == pr[2]
              col == columns[GreedyIndex(cfg, pr[1], p)]
          IN  col.cost =
                 SumRange([t \in Days(cfg) |->
                             cfg.ordering_cost[p] * (IF col.orders[t] > 0 THEN 1 ELSE 0)
                             + cfg.holding_cost[p]
                                 * GreedyWalk(instance, pr[1], p, t + 1).inv
                             + cfg.shortage_cost[p] * col.shortage[t]],
                          cfg.time_horizon)

\* generate_schedule has run: final_rmp is solved and the schedule built
ScheduleBuilt == final_rmp.bound

\* C2: when the final integer solve ends with a status other than optimal,
\* generate_schedule signals an infeasibility failure: no schedule is built
\* and handed back, and solve ends with that failure.
C2_InfeasibleFinalSolveSignalled ==
    (final_rmp.bound /\ final_rmp.status # LpStatusOptimal) =>
       /\ pc # "post"
       /\ pc = "done" => outcome = "InfeasibleProblem"

\* C3: for every column with final weight lambda > 0 and every day it orders
\* on, the schedule has a row with Case_Packs = orders[t] * lambda and
\* Units = Case_Packs * case_pack_size.
C3_RowsScaledByWeight ==
    (ScheduleBuilt /\ final_rmp.status = LpStatusOptimal) =>
       \A k \in 1 .. Len(columns) : \A t \in Days(instance.config) :
          (final_rmp.lambda[k] > 0 /\ columns[k].orders[t] # 0) =>
             \E j \in 1 .. Len(schedule) :
                /\ schedule[j].Store = columns[k].store
                /\ schedule[j].Product = columns[k].product
                /\ schedule[j].Day = t
                /\ schedule[j].Case_Packs = columns[k].orders[t] * final_rmp.lambda[k]
                /\ schedule[j].Units =
                      schedule[j].Case_Packs
                        * instance.config.case_pack_size[columns[k].product]

\* C5: every non-zero entry of the orders of every column in the pool is a
\* natural number of case-packs, at least the MOQ of the column's product.
C5_OrdersMeetMoq ==
    \A k \in 1 .. Len(columns) : \A t \in DOMAIN columns[k].orders :
       columns[k].orders[t] # 0 =>
          /\ columns[k].orders[t] \in Nat
          /\ columns[k].orders[t] >= instance.config.min_order_qty[columns[k].product]

C5_PricedAndSeedOrdersInPool ==
    /\ Len(columns) > SeedCount(instance.config)
    /\ \E t \in Days(instance.config) : columns[Len(columns)].orders[t] # 0
    /\ \E k \in 1 .. SeedCount(instance.config) : \E t \in Days(instance.config) :
          /\ columns[k].orders[t] # 0
          /\ columns[k].orders[t] = instance.config.min_order_qty[columns[k].product]
          /\ instance.config.min_order_qty[columns[k].product] > 1

\* cost_i - sum_t duals(s, p, t) * orders_i[t]
ReducedCost(inst, du, col) ==
    col.cost
      - SumRange([t \in Days(inst.config) |->
                     du[<<col.store, col.product, t>>] * col.orders[t]],
                 inst.config.time_horizon)

\* the least value of the subproblem of (s, p): the sum over the days of the
\* least of 0 (no order) and, over MOQ <= x <= BigM, the ordering cost plus
\* x times the holding cost of a pack less the day's dual
SubproblemOptimum(inst, du, s, p) ==
    LET cfg == inst.config
        vals(t) == {0} \cup
                   { cfg.ordering_cost[p]
                       + (cfg.holding_cost[p] * cfg.case_pack_size[p] - du[<<s, p, t>>]) * x :
                         x \in cfg.min_order_qty[p] .. BigM }
    IN  SumRange([t \in Days(cfg) |->
                     CHOOSE v \in vals(t) : \A w \in vals(t) : v <= w],
                 cfg.time_horizon)

\* C6: every column pricing_problem returns has, with the duals of that call,
\* a reduced cost below -1e-5 computed from the cost stored in it, and a
\* pair whose subproblem optimum is not below -1e-5 contributes no column.
C6_ReducedCostNegative ==
    rmp.bound =>
       /\ \A j \in 1 .. Len(new_cols) :
             ReducedCost(instance, duals, new_cols[j]) * EpsDen < -1
       /\ \A pr \in Pairs(instance.config) :
             ~(SubproblemOptimum(instance, duals, pr[1], pr[2]) * EpsDen < -1) =>
                \A j \in 1 .. Len(new_cols) :
                   ~(new_cols[j].store = pr[1] /\ new_cols[j].product = pr[2])

C6_OnePairPricedOneNot ==
    /\ rmp.bound
    /\ Len(new_cols) = 1
    /\ Cardinality(Pairs(instance.config)) = 2
    /\ \E t \in Days(instance.config) : new_cols[1].orders[t] > 0

\* C7: the pool has exactly 2 * num_stores * num_products columns before the
\* first pricing round; afterwards it still holds, for every (store,
\* product), its two seed columns unchanged; its length never decreases and
\* no column in it changes; every column's orders have time_horizon entries.
C7_PoolAppendOnly ==
    /\ [](pc = "ready" => Len(columns) = SeedCount(instance.config))
    /\ [](pc # "new" =>
            /\ \A pr \in Pairs(instance.config) :
                  /\ columns[GreedyIndex(instance.config, pr[1], pr[2])]
                        = GreedyColumn(instance, pr[1], pr[2])
                  /\ columns[ZeroIndex(instance.config, pr[1], pr[2])]
                        = ZeroColumn(instance, pr[1], pr[2])
            /\ \A k \in 1 .. Len(columns) :
                  DOMAIN columns[k].orders = 0 .. (instance.config.time_horizon - 1))
    /\ [][/\ Len(columns') >= Len(columns)
          /\ \A k \in 1 .. Len(columns) : columns'[k] = columns[k]]_vars

C7_PoolGrewTwice ==
    /\ pc = "done"
    /\ i >= 1
    /\ Len(columns) >= SeedCount(instance.config) + 2

\* C8: for every max_iter >= 0 and however the loop has ended, once the
\* final integer solve has run solve returns its schedule without raising.
C8_SolveAlwaysReturns ==
    (pc = "done" /\ final_rmp.bound) => outcome = "returned"

\* units the schedule orders for (s, p) on day t
RECURSIVE UnitsOn(_, _, _, _, _)
UnitsOn(rows, s, p, t, n) ==
    IF n = 0 THEN 0
    ELSE UnitsOn(rows, s, p, t, n - 1)
           + (IF rows[n].Store = s /\ rows[n].Product = p /\ rows[n].Day = t
              THEN rows[n].Units ELSE 0)

\* inventory of (s, p) at the end of day t - 1, simulated forward in day
\* order: add the day's ordered units, subtract its demand, clip at zero
RECURSIVE ForwardInventory(_, _, _, _, _)
ForwardInventory(inst, rows, s, p, t) ==
    IF t = 0 THEN inst.initial_inventory[<<s, p>>]
    ELSE Max(0, ForwardInventory(inst, rows, s, p, t - 1)
                  + UnitsOn(rows, s, p, t - 1, Len(rows))
                  - inst.demand[<<s, p, t - 1>>])

\* C10: the inventory a row's days-of-inventory metric is derived from is
\* that of the forward simulation of its (store, product) through the row's
\* day, in day order.
C10_RowInventoryIsForwardSimulation ==
    (ScheduleBuilt /\ final_rmp.status = LpStatusOptimal) =>
       \A j \in 1 .. Len(schedule) :
          schedule[j].Days_Inventory_Left.inventory =
             ForwardInventory(instance, schedule, schedule[j].Store,
                              schedule[j].Product, schedule[j].Day + 1)

\* solve has been called: max_iter and optimality_gap_threshold are set
SolveCalled == pc \in {"loop", "final", "post", "done"}

\* C11: best_lower_bound takes the current objective before the gap is
\* computed, so after the first iteration that appends columns it equals
\* that objective (gap 0); hence with optimality_gap_threshold > 0 the loop
\* is never re-entered once an RMP has been solved: i stays 0, and at the
\* head of the loop no RMP has been solved and no column priced.
C11_PositiveThresholdOneRound ==
    SolveCalled =>
       /\ (new_cols # << >>
             /\ Len(columns) = SeedCount(instance.config) + Len(new_cols)) =>
                best_lower_bound = Finite(rmp.objective)
       /\ optimality_gap_threshold > 0 =>
             /\ i = 0
             /\ pc = "loop" =>
                   (~rmp.bound /\ Len(columns) = SeedCount(instance.config))

C11_ExitedAfterFirstAppend ==
    /\ pc = "final"
    /\ optimality_gap_threshold > 0
    /\ max_iter = MaxIter
    /\ i = 0
    /\ new_cols # << >>
    /\ rmp.objective # 0
    /\ Len(columns) > SeedCount(instance.config)

====
